---- MODULE Spec2Model ----
(***************************************************************************)
(* erdtree: the concurrent traversal-to-tree pipeline of Tree::traverse    *)
(* (src/src/fs/erdtree/tree/mod.rs).  Walker workers convert directory     *)
(* entries into Nodes and send them on an unbounded channel; one           *)
(* aggregator thread rebuilds the parent -> children map (the Branch       *)
(* Buffer); the main thread joins it and runs assemble_tree.               *)
(*                                                                         *)
(* Spec       is the whole pipeline, from the command line to the Tree.    *)
(* LiveSpec   is Tree::traverse on small walks under fair scheduling.      *)
(* SortSpec   is assemble_tree on one directory, every arrival order.      *)
(* TreeSpec   is assemble_tree, Node::prune_directories and Display for    *)
(*            Tree on walks that were delivered completely.                *)
(* NodeSpec   is Tree::traverse on walks of every file type, with the      *)
(*            descriptor the Context-based constructor builds.             *)
(* StyleSpec  is styles::init and the getters of the styles statics.       *)
(* RenderSpec is the name and the size cell rendered for one entry.        *)
(* FilterSpec is Context::regex_predicate applied to one entry.            *)
(* ConfigSpec is read_config_to_string.                                    *)
(***************************************************************************)
EXTENDS Integers, Sequences, FiniteSets, TLC

(* ------------------------------ bounds -------------------------------- *)
\* deepest entry below the traversal root
MaxDepth == 2
\* most directory entries of one walk, the root included
MaxEntries == 4
\* largest byte length of one file
MaxSize == 1
\* most directory entries of a walk whose termination is checked
MaxLiveEntries == 2
\* deepest entry of a walk whose tree is pruned and rendered
MaxTreeDepth == 3
\* most entries of such a walk, the root included
MaxTreeEntries == 5
\* most children of the one directory whose children list is sorted
MaxSiblings == 3
\* largest byte length of one of these children
MaxSiblingSize == 2

\* file names below the root
Names == {"a", "b"}

\* the OnceCell statics of the styles module
StyleCells ==
    {"LS_COLORS", "TREE_THEME", "LINK_THEME", "DU_THEME", "PLACEHOLDER_STYLE",
     "PERMISSIONS_THEME", "OCTAL_PERMISSIONS_STYLE", "INO_STYLE",
     "OWNER_STYLE", "GROUP_STYLE", "NLINK_STYLE", "DATETIME_STYLE"}

(* --------------------------- Option<T> -------------------------------- *)
\* Rust's Option: None is the empty tuple, Some(x) the one-element tuple
None == << >>
Some(x) == << x >>
IsSome(o) == Len(o) = 1
UnwrapOr(o, d) == IF Len(o) = 1 THEN o[1] ELSE d

(* ----------------------------- paths ---------------------------------- *)
\* A PathBuf is the sequence of its normal components; << >> is "/".
\* Node::parent_path_buf: PathBuf::pop fails only on a path without parent.
parent_path_buf_pop2(path) ==
    IF Len(path) = 0 THEN None
    ELSE IF Len(path) = 1 THEN Some(<< >>)
    ELSE Some(SubSeq(path, 1, Len(path) - 2))

parent_path_buf(path) ==
    IF Len(path) = 0 THEN None ELSE Some(SubSeq(path, 1, Len(path) - 1))

\* paths relative to the traversal root
RelPaths == UNION { [1..n -> Names] : n \in 0..MaxDepth }

\* the directory trees a walk can meet: prefix-closed sets of relative paths
Shapes ==
    { S \in SUBSET RelPaths :
        /\ << >> \in S
        /\ Cardinality(S) <= MaxEntries
        /\ \A p \in S : p # << >> => SubSeq(p, 1, Len(p) - 1) \in S }

HasChild(S, p) == \E q \in S : Len(q) = Len(p) + 1 /\ SubSeq(q, 1, Len(p)) = p

(* ------------------------- directory entries -------------------------- *)
\* What the walker hands to the callback for one entry: Err (ok = FALSE) or
\* a DirEntry with its path, depth, file type and metadata (byte length).
DirAttr == [ok |-> TRUE, file_type |-> "dir", metadata |-> Some(MaxSize)]
ErrAttr == [ok |-> FALSE, file_type |-> "none", metadata |-> None]
FileAttrs ==
    { [ok |-> TRUE, file_type |-> "file", metadata |-> m] :
        m \in {None} \cup { Some(s) : s \in 0..MaxSize } }
LeafAttrs == {DirAttr, ErrAttr} \cup FileAttrs

\* The traversal root: a directory /r, a regular file /r (erdtree run on a
\* file), an entry that failed, or a malformed root: the path "/" (no parent
\* component) reported without the directory type.  The walker is an
\* external library; its workers may visit the entries in any order.
RootKinds ==
    { [path |-> << "r" >>, attr |-> DirAttr],
      [path |-> << "r" >>, attr |-> [ok |-> TRUE, file_type |-> "file", metadata |-> Some(MaxSize)]],
      [path |-> << "r" >>, attr |-> ErrAttr],
      [path |-> << >>, attr |-> [ok |-> TRUE, file_type |-> "none", metadata |-> None]] }

MkEntry(path, depth, attr) ==
    [ok |-> attr.ok, path |-> path, depth |-> depth,
     file_type |-> attr.file_type, metadata |-> attr.metadata]

ScenariosOf(S, rk) ==
    { {MkEntry(rk.path, 0, rk.attr)} \cup
      { MkEntry(rk.path \o p, Len(p), f[p]) : p \in S \ {<< >>} } :
        f \in { g \in [S \ {<< >>} -> LeafAttrs] :
                  \A p \in S \ {<< >>} : HasChild(S, p) => g[p] = DirAttr } }

\* every walk of the model: a set of entry results, one per visited entry
Scenarios == UNION { ScenariosOf(S, rk) : S \in Shapes, rk \in RootKinds }

(* ------------------------------- Node --------------------------------- *)
\* impl From<NodePrecursor> for Node: depth and path are copied, children
\* start as None, file_size is read from the metadata of regular files only.
NodeFrom_depth_shifted(dir_entry) ==
    [depth |-> IF dir_entry.depth = 0 THEN 0 ELSE dir_entry.depth + 1,
     file_size |-> IF dir_entry.file_type = "file" THEN dir_entry.metadata ELSE None,
     children |-> None,
     file_type |-> dir_entry.file_type,
     path |-> dir_entry.path]

NodeFrom(dir_entry) ==
    [depth |-> dir_entry.depth,
     file_size |-> IF dir_entry.file_type = "file" THEN dir_entry.metadata ELSE None,
     children |-> None,
     file_type |-> dir_entry.file_type,
     path |-> dir_entry.path]

\* Node::is_dir
is_dir(node) == node.file_type = "dir"

\* Node::file_name: the last component of the path ("/" for the root path)
file_name(node) == IF Len(node.path) = 0 THEN "/" ELSE node.path[Len(node.path)]

\* Node::set_children
set_children(node, children) == [node EXCEPT !.children = Some(children)]

\* Node::set_file_size
set_file_size(node, size) == [node EXCEPT !.file_size = Some(size)]

(* ------------------------------ Order --------------------------------- *)
\* the sort orders of the command line
Orders == {"Name", "Size", "SizeRev", "None"}

\* lexicographic rank of a file name
NameRank(name) ==
    CASE name = "/" -> 0 [] name = "a" -> 1 [] name = "b" -> 2
      [] name = "c" -> 3 [] name = "d" -> 4 [] OTHER -> 5

\* the comparator of one sort order: TRUE when a sorts strictly before b
SortBefore(sort, a, b) ==
    CASE sort = "Name" -> NameRank(file_name(a)) < NameRank(file_name(b))
      [] sort = "Size" -> UnwrapOr(a.file_size, 0) < UnwrapOr(b.file_size, 0)
      [] sort = "SizeRev" -> UnwrapOr(a.file_size, 0) > UnwrapOr(b.file_size, 0)
      [] OTHER -> FALSE

\* the Order handed to Tree::new: the sort order and the dirs_first flag of
\* the command line
TreeOrders == [sort : Orders, dirs_first : BOOLEAN]

\* Order::comparator is None for the sort order "None"
HasComparator(order) == order.sort # "None"

\* Order::comparator: with dirs_first a directory sorts before a
\* non-directory, and the sort order decides between two of a kind
Before(order, a, b) ==
    IF order.dirs_first /\ is_dir(a) # is_dir(b)
    THEN is_dir(a)
    ELSE SortBefore(order.sort, a, b)

\* an insertion that ignores the comparator
InsertSorted_append(sorted, x, order) == Append(sorted, x)

\* Vec::sort_by is a stable sort: x goes before the first element that
\* sorts strictly after it.
InsertSorted(sorted, x, order) ==
    LET later == { i \in 1..Len(sorted) : Before(order, x, sorted[i]) }
        at == IF later = {} THEN Len(sorted) + 1
              ELSE CHOOSE i \in later : \A j \in later : i <= j
    IN SubSeq(sorted, 1, at - 1) \o << x >> \o SubSeq(sorted, at, Len(sorted))

RECURSIVE sort_by(_, _)
sort_by(nodes, order) ==
    IF nodes = << >> THEN << >>
    ELSE InsertSorted(sort_by(SubSeq(nodes, 1, Len(nodes) - 1), order),
                      nodes[Len(nodes)], order)

(* ---------------------------- aggregator ------------------------------ *)
\* the pre-creation without the contains_key test of line 76
PreCreateBucket_unconditional(branches, node) ==
    IF is_dir(node)
    THEN [k \in (DOMAIN branches) \cup {node.path} |-> 
             IF k = node.path THEN << >> ELSE branches[k]]
    ELSE branches

\* lines 73-78: a directory gets an (empty) bucket keyed by its own path
PreCreateBucket(branches, node) ==
    IF is_dir(node) /\ node.path \notin DOMAIN branches
    THEN (node.path :> << >>) @@ branches
    ELSE branches

\* lines 88-92: push the node on its parent's bucket; when the bucket does
\* not exist the closure holding the node is dropped and an empty bucket is
\* inserted.
UpdateParentBucket(branches, parent, node) ==
    IF parent \in DOMAIN branches
    THEN [branches EXCEPT ![parent] = Append(@, node)]
    ELSE (parent :> << >>) @@ branches

\* one iteration of the aggregator loop, lines 72-93
AggregatorStep(st, node) ==
    LET b1 == PreCreateBucket(st.branches, node) IN
    IF is_dir(node) /\ node.depth = 0
    THEN [branches |-> b1, root |-> Some(node), err |-> FALSE]
    ELSE LET parent == parent_path_buf(node.path) IN
         IF parent = None
         THEN [branches |-> b1, root |-> st.root, err |-> TRUE]
         ELSE [branches |-> UpdateParentBucket(b1, parent[1], node),
               root |-> st.root, err |-> FALSE]

\* lines 95-97: the hand-off after the channel closed
AggregatorFinish_wrong_error(root_opt) ==
    IF root_opt = None THEN "ExpectedParent" ELSE "Ok"

AggregatorFinish(root_opt) == IF root_opt = None THEN "MissingRoot" ELSE "Ok"

(* --------------------------- assemble_tree ---------------------------- *)
\* lines 143-145
SetDirSize_always(node, dir_size) == set_file_size(node, dir_size)

SetDirSize(node, dir_size) ==
    IF dir_size > 0 THEN set_file_size(node, dir_size) ELSE node

\* lines 147-151 with the sort left out
SortChildren_skipped(node, order) == node

\* lines 147-151
SortChildren(node, order) ==
    IF HasComparator(order) /\ IsSome(node.children)
    THEN [node EXCEPT !.children = Some(sort_by(node.children[1], order))]
    ELSE node

\* line 126: HashMap::remove
RemoveBucket(branches, path) ==
    [p \in DOMAIN branches \ {path} |-> branches[p]]

RECURSIVE assemble_tree(_, _, _)
RECURSIVE assemble_children(_, _, _)

\* lines 134-141: each child directory is assembled first, then its size is
\* added to the running total
assemble_children(nodes, branches, order) ==
    IF nodes = << >>
    THEN [nodes |-> << >>, branches |-> branches, dir_size |-> 0]
    ELSE LET head == IF is_dir(nodes[1])
                     THEN assemble_tree(nodes[1], branches, order)
                     ELSE [node |-> nodes[1], branches |-> branches]
             rest == assemble_children(Tail(nodes), head.branches, order)
         IN [nodes |-> << head.node >> \o rest.nodes,
             branches |-> rest.branches,
             dir_size |-> UnwrapOr(head.node.file_size, 0) + rest.dir_size]

\* lines 125-153 with the children sorted as soon as they are attached,
\* before they are assembled and summed
assemble_tree_sort_first(current_dir, branches, order) ==
    IF current_dir.path \notin DOMAIN branches
    THEN [node |-> current_dir, branches |-> branches]
    ELSE LET attached == SortChildren(set_children(current_dir, branches[current_dir.path]),
                                      order)
             done == assemble_children(attached.children[1],
                                       RemoveBucket(branches, current_dir.path), order)
             summed == SetDirSize([attached EXCEPT !.children = Some(done.nodes)],
                                  done.dir_size)
         IN [node |-> summed, branches |-> done.branches]

\* lines 125-153
assemble_tree(current_dir, branches, order) ==
    IF current_dir.path \notin DOMAIN branches
    THEN [node |-> current_dir, branches |-> branches]
    ELSE LET attached == set_children(current_dir, branches[current_dir.path])
             done == assemble_children(attached.children[1],
                                       RemoveBucket(branches, current_dir.path), order)
             summed == SetDirSize([attached EXCEPT !.children = Some(done.nodes)],
                                  done.dir_size)
         IN [node |-> SortChildren(summed, order), branches |-> done.branches]

(* ------------------------------- state -------------------------------- *)
VARIABLES
    pending,    \* entry results the walker workers have not yet visited
    chan,       \* the unbounded channel: Nodes sent and not yet received
    txAlive,    \* the main thread still holds the Sender (before drop(tx))
    aggPc,      \* aggregator thread: "recv" in its loop, "done" once returned
    branches,   \* the Branch Buffer
    root,       \* Option<Node>: the root stored aside by the aggregator
    aggResult,  \* what the aggregator thread returned
    received,   \* history: every Node the aggregator took off the channel
    mainPc,     \* main thread: "run", "join", "assemble", "returned", "panicked"
    tree,       \* Option<Tree>: the Tree { order, root } that Tree::new returned
    result,     \* what the run returned: "pending", "Ok" or the error
    cfg,        \* Option: what the root path and the glob patterns turned out to be
    sent,       \* history: how many Nodes the workers have sent on the channel
    pruned,     \* Option<Node>: the root after Node::prune_directories
    output,     \* Option: the lines written by Display for Tree
    dirEntry,   \* Option<DirEntry>: the entry the front end is looking at
    ctx,        \* Option<Context>: the parsed command line of the front end
    built,      \* Option<Node>: the descriptor built from dirEntry and ctx
    outcome,    \* Option: the front-end function called last and what it returned
    styles,     \* the OnceCell statics of the styles module
    env         \* Option: environment variables and readable config files

\* the state of the front end: styles, environment, per-entry rendering
frontVars == << dirEntry, ctx, built, outcome, styles, env >>

\* the state of the traversal pipeline
treeVars == << pending, chan, txAlive, aggPc, branches, root, aggResult,
              received, mainPc, tree, result, cfg, sent, pruned, output >>

vars == << pending, chan, txAlive, aggPc, branches, root, aggResult,
           received, mainPc, tree, result, cfg, sent, pruned, output,
           dirEntry, ctx, built, outcome, styles, env >>

\* the front end has not run: no static is set, nothing was read or drawn
FrontIdle ==
    /\ dirEntry = None
    /\ ctx = None
    /\ built = None
    /\ outcome = None
    /\ styles = [c \in StyleCells |-> None]
    /\ env = None

\* the state before the command line is turned into a walker
Init ==
    /\ pending = {}
    /\ chan = << >>
    /\ txAlive = FALSE
    /\ aggPc = "unspawned"
    /\ branches = << >>
    /\ root = None
    /\ aggResult = "running"
    /\ received = << >>
    /\ mainPc = "config"
    /\ tree = None
    /\ result = "pending"
    /\ cfg = None
    /\ sent = 0
    /\ pruned = None
    /\ output = None
    /\ FrontIdle

(* ------------------------ command line to walker ---------------------- *)
\* what the run meets: whether the root path canonicalizes, whether its
\* metadata can be read, whether every glob pattern is valid
Configs == [canonicalize : BOOLEAN, metadata : BOOLEAN, globs : BOOLEAN]

\* Clargs::overrides: builder.add(glob)? fails on an invalid pattern
overrides(c) == IF c.globs THEN "Ok" ELSE "InvalidGlobPatterns"

\* the conversion with the result of overrides() left unchecked
try_from_globs_ignored(c) ==
    IF ~c.canonicalize THEN "PathCanonicalization"
    ELSE IF ~c.metadata THEN "DirNotFound"
    ELSE "Ok"

\* impl TryFrom<&Clargs> for WalkParallel, cli.rs lines 171-183: the three
\* ? in the order of the code
try_from(c) ==
    IF ~c.canonicalize THEN "PathCanonicalization"
    ELSE IF ~c.metadata THEN "DirNotFound"
    ELSE overrides(c)

\* the conversion fails: the error is returned and Tree::new, which takes
\* the walker by value, is never called
TryFromErr(c) ==
    /\ mainPc = "config"
    /\ try_from(c) # "Ok"
    /\ cfg' = Some(c)
    /\ result' = try_from(c)
    /\ mainPc' = "failed"
    /\ UNCHANGED << pending, chan, txAlive, aggPc, branches, root, aggResult,
                    received, tree, sent, pruned, output >>
    /\ UNCHANGED frontVars

\* the conversion succeeds and Tree::new calls traverse: the channel is
\* created and the aggregator thread spawned (tree/mod.rs lines 64-98), and
\* walker.run starts on the entries of the walk
TryFromOk(c) ==
    /\ mainPc = "config"
    /\ try_from(c) = "Ok"
    /\ cfg' = Some(c)
    /\ pending' \in Scenarios
    /\ txAlive' = TRUE
    /\ aggPc' = "recv"
    /\ mainPc' = "run"
    /\ UNCHANGED << chan, branches, root, aggResult, received, tree, result,
                    sent, pruned, output >>
    /\ UNCHANGED frontVars

(* --------------------------- walker workers --------------------------- *)
\* lines 106-110: an entry result that is an error sends nothing (Skip)
WalkerSkip(e) ==
    /\ mainPc = "run"
    /\ e \in pending
    /\ ~e.ok
    /\ pending' = pending \ {e}
    /\ UNCHANGED << chan, txAlive, aggPc, branches, root, aggResult,
                    received, mainPc, tree, result >>
    /\ UNCHANGED << cfg, sent, pruned, output >>
    /\ UNCHANGED frontVars

\* lines 106-109: an Ok entry becomes a Node and is sent (Continue)
WalkerSend(e) ==
    /\ mainPc = "run"
    /\ e \in pending
    /\ e.ok
    /\ aggPc = "recv"
    /\ pending' = pending \ {e}
    /\ chan' = Append(chan, NodeFrom(e))
    /\ sent' = sent + 1
    /\ UNCHANGED << txAlive, aggPc, branches, root, aggResult,
                    received, mainPc, tree, result >>
    /\ UNCHANGED << cfg, pruned, output >>
    /\ UNCHANGED frontVars

\* line 108: the receiver is gone, send returns Err and unwrap panics; the
\* panic of the worker is re-raised by walker.run in the main thread
WalkerSendPanics(e) ==
    /\ mainPc = "run"
    /\ e \in pending
    /\ e.ok
    /\ aggPc = "done"
    /\ pending' = pending \ {e}
    /\ mainPc' = "panicked"
    /\ UNCHANGED << chan, txAlive, aggPc, branches, root, aggResult,
                    received, tree, result >>
    /\ UNCHANGED << cfg, sent, pruned, output >>
    /\ UNCHANGED frontVars

\* walker.run returns and the Sender is kept alive
DropTx_tx_kept ==
    /\ mainPc = "run"
    /\ pending = {}
    /\ txAlive' = TRUE
    /\ mainPc' = "join"
    /\ UNCHANGED << pending, chan, aggPc, branches, root, aggResult,
                    received, tree, result >>
    /\ UNCHANGED << cfg, sent, pruned, output >>
    /\ UNCHANGED frontVars

\* lines 112-114: walker.run returns when every entry was visited, then the
\* last Sender is dropped
DropTx ==
    /\ mainPc = "run"
    /\ pending = {}
    /\ txAlive' = FALSE
    /\ mainPc' = "join"
    /\ UNCHANGED << pending, chan, aggPc, branches, root, aggResult,
                    received, tree, result >>
    /\ UNCHANGED << cfg, sent, pruned, output >>
    /\ UNCHANGED frontVars

(* ------------------------- aggregator thread -------------------------- *)
\* a receive that would leave the Node in the channel as well
AggregatorRecv_peek ==
    /\ aggPc = "recv"
    /\ chan # << >>
    /\ LET node == Head(chan)
           st == AggregatorStep([branches |-> branches, root |-> root], node)
       IN /\ chan' = chan
          /\ received' = Append(received, node)
          /\ branches' = st.branches
          /\ root' = st.root
          /\ aggPc' = IF st.err THEN "done" ELSE "recv"
          /\ aggResult' = IF st.err THEN "ExpectedParent" ELSE aggResult
    /\ UNCHANGED << pending, txAlive, mainPc, tree, result >>
    /\ UNCHANGED << cfg, sent, pruned, output >>
    /\ UNCHANGED frontVars

\* lines 72-93: rx.recv() yields a Node
AggregatorRecv ==
    /\ aggPc = "recv"
    /\ chan # << >>
    /\ LET node == Head(chan)
           st == AggregatorStep([branches |-> branches, root |-> root], node)
       IN /\ chan' = Tail(chan)
          /\ received' = Append(received, node)
          /\ branches' = st.branches
          /\ root' = st.root
          /\ aggPc' = IF st.err THEN "done" ELSE "recv"
          /\ aggResult' = IF st.err THEN "ExpectedParent" ELSE aggResult
    /\ UNCHANGED << pending, txAlive, mainPc, tree, result >>
    /\ UNCHANGED << cfg, sent, pruned, output >>
    /\ UNCHANGED frontVars

\* a loop that would end on an empty channel while a Sender is alive
AggregatorDisconnected_on_empty ==
    /\ aggPc = "recv"
    /\ chan = << >>
    /\ aggPc' = "done"
    /\ aggResult' = AggregatorFinish(root)
    /\ UNCHANGED << pending, chan, txAlive, branches, root, received,
                    mainPc, tree, result >>
    /\ UNCHANGED << cfg, sent, pruned, output >>
    /\ UNCHANGED frontVars

\* lines 72, 95-97: rx.recv() fails once the channel is empty and every
\* Sender is dropped
AggregatorDisconnected ==
    /\ aggPc = "recv"
    /\ chan = << >>
    /\ ~txAlive
    /\ aggPc' = "done"
    /\ aggResult' = AggregatorFinish(root)
    /\ UNCHANGED << pending, chan, txAlive, branches, root, received,
                    mainPc, tree, result >>
    /\ UNCHANGED << cfg, sent, pruned, output >>
    /\ UNCHANGED frontVars

(* ---------------------------- main thread ----------------------------- *)
\* line 116 and Tree::new line 44: join the aggregator; an Err is returned
JoinOk ==
    /\ mainPc = "join"
    /\ aggPc = "done"
    /\ aggResult = "Ok"
    /\ mainPc' = "assemble"
    /\ UNCHANGED << pending, chan, txAlive, aggPc, branches, root, aggResult,
                    received, tree, result >>
    /\ UNCHANGED << cfg, sent, pruned, output >>
    /\ UNCHANGED frontVars

JoinErr ==
    /\ mainPc = "join"
    /\ aggPc = "done"
    /\ aggResult # "Ok"
    /\ mainPc' = "returned"
    /\ result' = aggResult
    /\ UNCHANGED << pending, chan, txAlive, aggPc, branches, root, aggResult,
                    received, tree >>
    /\ UNCHANGED << cfg, sent, pruned, output >>
    /\ UNCHANGED frontVars

\* lines 118-120 and Tree::new lines 46-50.  The Order argument of Tree::new
\* is immutable and first read by assemble_tree, so it is drawn here.
Assemble(order) ==
    /\ mainPc = "assemble"
    /\ LET asm == assemble_tree(root[1], branches, order)
       IN /\ tree' = Some([order |-> order, root |-> asm.node])
          /\ branches' = asm.branches
    /\ result' = "Ok"
    /\ mainPc' = "returned"
    /\ UNCHANGED << pending, chan, txAlive, aggPc, root, aggResult, received >>
    /\ UNCHANGED << cfg, sent, pruned, output >>
    /\ UNCHANGED frontVars

Next ==
    \/ \E c \in Configs : TryFromErr(c)
    \/ \E c \in Configs : TryFromOk(c)
    \/ \E e \in pending : WalkerSkip(e)
    \/ \E e \in pending : WalkerSend(e)
    \/ \E e \in pending : WalkerSendPanics(e)
    \/ DropTx
    \/ AggregatorRecv
    \/ AggregatorDisconnected
    \/ JoinOk
    \/ JoinErr
    \/ \E order \in TreeOrders : Assemble(order)

Spec == Init /\ [][Next]_vars

(* ------------------------- fair scheduling ---------------------------- *)
\* Tree::traverse right after the aggregator thread was spawned (line 98),
\* on a walk of at most MaxLiveEntries entries
LiveInit ==
    /\ pending \in { walk \in Scenarios : Cardinality(walk) <= MaxLiveEntries }
    /\ chan = << >>
    /\ txAlive = TRUE
    /\ aggPc = "recv"
    /\ branches = << >>
    /\ root = None
    /\ aggResult = "running"
    /\ received = << >>
    /\ mainPc = "run"
    /\ tree = None
    /\ result = "pending"
    /\ cfg = Some([canonicalize |-> TRUE, metadata |-> TRUE, globs |-> TRUE])
    /\ sent = 0
    /\ pruned = None
    /\ output = None
    /\ FrontIdle

\* the steps of the walker workers, the aggregator thread and the main
\* thread inside Tree::new
LiveNext ==
    \/ \E e \in pending : WalkerSkip(e)
    \/ \E e \in pending : WalkerSend(e)
    \/ \E e \in pending : WalkerSendPanics(e)
    \/ DropTx
    \/ AggregatorRecv
    \/ AggregatorDisconnected
    \/ JoinOk
    \/ JoinErr
    \/ \E order \in TreeOrders : Assemble(order)

\* The threads are scheduled by the operating system: a thread that can
\* take a step eventually takes one.
LiveSpec == LiveInit /\ [][LiveNext]_vars /\ WF_vars(LiveNext)

(* ===================== properties of the pipeline ===================== *)
\* the children list of a node (empty when children is None)
ChildrenOf(node) == UnwrapOr(node.children, << >>)

RECURSIVE NodesOf(_)
\* every node of the tree rooted at node
NodesOf(node) ==
    {node} \cup UNION { NodesOf(ChildrenOf(node)[i]) : i \in 1..Len(ChildrenOf(node)) }

\* the parent -> child edges of a tree, by path
EdgesOf(node) ==
    UNION { { << p.path, ChildrenOf(p)[i].path >> : i \in 1..Len(ChildrenOf(p)) } :
              p \in NodesOf(node) }

\* the size of every node of a tree, by path
SizesOf(node) == { << n.path, n.file_size >> : n \in NodesOf(node) }

RECURSIVE SumSizes(_)
SumSizes(nodes) ==
    IF nodes = << >> THEN 0
    ELSE UnwrapOr(nodes[1].file_size, 0) + SumSizes(Tail(nodes))

\* a path with its final component stripped
StripLast(path) == SubSeq(path, 1, Len(path) - 1)

Range(seq) == { seq[i] : i \in 1..Len(seq) }

Returned(res) == mainPc = "returned" /\ result = res

RECURSIVE PathKey(_)
PathKey(path) ==
    IF path = << >> THEN 0
    ELSE 4 * PathKey(StripLast(path)) + NameRank(path[Len(path)])

\* parents-first delivery order of a set of descriptors
Precedes(a, b) ==
    \/ a.depth < b.depth
    \/ a.depth = b.depth /\ PathKey(a.path) < PathKey(b.path)

RECURSIVE ParentsFirst(_)
ParentsFirst(S) ==
    IF S = {} THEN << >>
    ELSE LET m == CHOOSE x \in S : \A y \in S \ {x} : Precedes(x, y)
         IN << m >> \o ParentsFirst(S \ {m})

RECURSIVE AggregateAll(_, _)
AggregateAll(st, nodes) ==
    IF nodes = << >> THEN st
    ELSE AggregateAll(AggregatorStep(st, Head(nodes)), Tail(nodes))

\* the tree the pipeline builds when the same descriptors arrive parents
\* first
ReferenceTree(S, order) ==
    LET st == AggregateAll([branches |-> << >>, root |-> None], ParentsFirst(S))
    IN assemble_tree(st.root[1], st.branches, order).node

\* C1: whatever the arrival order of the descriptors, the assembled tree has
\* the parent -> children structure and the directory sizes of the tree
\* built from the same descriptors delivered parents first.
C1_OrderIndependence ==
    Returned("Ok") =>
        /\ EdgesOf(tree[1].root) = EdgesOf(ReferenceTree(Range(received), tree[1].order))
        /\ SizesOf(tree[1].root) = SizesOf(ReferenceTree(Range(received), tree[1].order))

\* the buckets and positions at which a node sits in the Branch Buffer
PlacesOf(node) ==
    { << k, j >> \in (DOMAIN branches) \X (1..MaxEntries) :
        j <= Len(branches[k]) /\ branches[k][j] = node }

\* C2: when the aggregator finished with Ok, every descriptor of depth > 0 it
\* received sits in exactly one bucket, the one keyed by its parent path.
C2_NoDescriptorLost ==
    (aggResult = "Ok" /\ mainPc \in {"join", "assemble"}) =>
        \A n \in Range(received) :
            n.depth # 0 =>
                /\ Cardinality(PlacesOf(n)) = 1
                /\ \A pl \in PlacesOf(n) : pl[1] = StripLast(n.path)

\* C3: after assemble_tree every directory of the tree carries the sum of
\* its children's sizes when that sum is positive and no size otherwise.
C3_SizeAggregation ==
    Returned("Ok") =>
        \A d \in NodesOf(tree[1].root) :
            is_dir(d) =>
                IF SumSizes(ChildrenOf(d)) > 0
                THEN d.file_size = Some(SumSizes(ChildrenOf(d)))
                ELSE d.file_size = None

C3_Witness ==
    /\ Returned("Ok")
    /\ IsSome(tree[1].root.file_size)
    /\ \E d \in NodesOf(tree[1].root) :
          is_dir(d) /\ d.depth = 1 /\ IsSome(d.file_size) /\ ChildrenOf(d) # << >>
    /\ \E d \in NodesOf(tree[1].root) :
          is_dir(d) /\ d.depth = 1 /\ d.file_size = None

\* C4: every received descriptor of depth 0, of any file type, is the root
\* stored aside and sits in no bucket.
C4_RootStoredAside ==
    \A n \in Range(received) :
        n.depth = 0 => root = Some(n) /\ PlacesOf(n) = {}

\* C5: when the channel closed and no descriptor of depth 0 was received, the
\* aggregator ends with MissingRoot, Tree::new returns that error and no
\* tree exists.
C5_MissingRoot ==
    (aggPc = "done" /\ \A n \in Range(received) : n.depth # 0) =>
        /\ aggResult = "MissingRoot"
        /\ mainPc \in {"join", "returned"}
        /\ mainPc = "returned" => result = "MissingRoot"
        /\ tree = None

C5_Witness ==
    /\ Returned("MissingRoot")
    /\ received # << >>
    /\ \A n \in Range(received) : n.depth # 0

\* a received descriptor that is not taken as the root and has no parent
ParentlessReceived ==
    \E n \in Range(received) :
        Len(n.path) = 0 /\ ~(is_dir(n) /\ n.depth = 0)

\* C6: once a parentless non-root descriptor was received the aggregation
\* has ended with ExpectedParent, and Tree::traverse returns that error.
C6_ExpectedParent ==
    ParentlessReceived =>
        /\ aggResult = "ExpectedParent"
        /\ mainPc \in {"run", "join", "returned"}
        /\ mainPc = "returned" => result = "ExpectedParent"

\* C7: when the aggregator ended with an error, assemble_tree is not
\* called, no tree exists, and the run ends with Tree::new returning Err.
C7_BrokenTreeNeverAssembled ==
    aggResult \in {"MissingRoot", "ExpectedParent"} =>
        /\ mainPc # "assemble"
        /\ tree = None
        /\ mainPc \in {"run", "join"} \/ Returned(aggResult)

\* C8: after assemble_tree the Branch Buffer has no key left.
C8_BranchesDrained ==
    Returned("Ok") => DOMAIN branches = {}

\* C9: the assembled tree has exactly one node of depth 0, its root, and
\* every child's path with the final component stripped is its parent's path.
C9_TreeStructure ==
    Returned("Ok") =>
        /\ { n \in NodesOf(tree[1].root) : n.depth = 0 } = { tree[1].root }
        /\ \A p \in NodesOf(tree[1].root) :
              \A c \in Range(ChildrenOf(p)) :
                  Len(c.path) > 0 /\ StripLast(c.path) = p.path

C9_Witness ==
    /\ Returned("Ok")
    /\ \E p \in NodesOf(tree[1].root) :
          p.depth = 1 /\ \E c \in Range(ChildrenOf(p)) : ~is_dir(c)

\* C10: in the assembled tree the root has depth 0 and every child is one
\* level deeper than its parent.
C10_DepthInvariant ==
    Returned("Ok") =>
        /\ tree[1].root.depth = 0
        /\ \A p \in NodesOf(tree[1].root) :
              \A c \in Range(ChildrenOf(p)) : c.depth = p.depth + 1

C10_Witness ==
    /\ Returned("Ok")
    /\ \E p \in Range(ChildrenOf(tree[1].root)) :
          \E c \in Range(ChildrenOf(p)) : c.depth = 2 /\ is_dir(c)


(* ============== properties of the walker and the threads ============== *)
\* what the claim requires of the step that visits the entry result e
CallbackContract(e) ==
    IF e.ok
    THEN /\ Len(chan') = Len(chan) + 1
         /\ SubSeq(chan', 1, Len(chan)) = chan
         /\ chan'[Len(chan')].path = e.path
         /\ mainPc' = "run"
    ELSE chan' = chan /\ mainPc' = "run"

\* every step that visits an entry result keeps the contract, and the
\* aggregator receives only what was sent
WalkerSteps ==
    /\ \A e \in pending : e \notin pending' => CallbackContract(e)
    /\ received' # received =>
          chan # << >> /\ received' = Append(received, Head(chan))

\* C16: in the walker callback an entry result that is an error sends
\* nothing and returns Skip, an entry result that is Ok sends exactly one
\* descriptor and returns Continue, and nothing is received for a failed
\* entry.
C16_PerEntryErrorsStopAtWalker == [][WalkerSteps]_vars

\* the error the conversion owes for what the run meets
ExpectedConfigError(c) ==
    CASE ~c.canonicalize -> "PathCanonicalization"
      [] c.canonicalize /\ ~c.metadata -> "DirNotFound"
      [] c.canonicalize /\ c.metadata /\ ~c.globs -> "InvalidGlobPatterns"
      [] OTHER -> "Ok"

\* C17: when the root path cannot be canonicalized or stat'ed, or a glob
\* pattern is invalid, the conversion returns the matching error, no
\* aggregator thread is spawned and no walker worker runs.
C17_ConfigErrorsPrecedeTraversal ==
    (IsSome(cfg) /\ ExpectedConfigError(cfg[1]) # "Ok") =>
        /\ mainPc = "failed"
        /\ result = ExpectedConfigError(cfg[1])
        /\ aggPc = "unspawned"
        /\ ~txAlive
        /\ pending = {} /\ sent = 0
        /\ chan = << >> /\ received = << >>

C17_Witness ==
    /\ mainPc = "failed"
    /\ result = "InvalidGlobPatterns"
    /\ cfg = Some([canonicalize |-> TRUE, metadata |-> TRUE, globs |-> FALSE])

\* C18: the aggregator hands off (root, branches) only after every Sender
\* was dropped and every descriptor sent by a worker was received.
C18_FinalizeOnChannelClose ==
    aggResult = "Ok" =>
        /\ ~txAlive
        /\ pending = {}
        /\ chan = << >>
        /\ Len(received) = sent

C18_Witness ==
    /\ aggResult = "Ok"
    /\ sent >= 3

RECURSIVE HeldInTree(_, _)
\* the places of a tree at which a descriptor of the given path sits
HeldInTree(node, path) ==
    (IF node.path = path THEN {<< >>} ELSE {})
    \cup UNION { { << i >> \o pl : pl \in HeldInTree(ChildrenOf(node)[i], path) } :
                 i \in 1..Len(ChildrenOf(node)) }

\* every place at which a descriptor of the given path is held: a slot of
\* the channel, a slot of a bucket, the root set aside, or, once the root
\* was moved into the Tree, a place of the tree
HoldersOf(path) ==
    { << "chan", i >> : i \in { j \in 1..Len(chan) : chan[j].path = path } }
    \cup { << "bucket", pl >> :
             pl \in { q \in UNION { { << k, j >> : j \in 1..Len(branches[k]) } :
                                    k \in DOMAIN branches } :
                      branches[q[1]][q[2]].path = path } }
    \cup (IF IsSome(tree)
          THEN { << "tree", pl >> : pl \in HeldInTree(tree[1].root, path) }
          ELSE IF IsSome(root) /\ root[1].path = path THEN { << "root" >> } ELSE {})

\* the paths of the descriptors sent so far
WalkPaths == { n.path : n \in Range(received) \cup Range(chan) }

\* C19 (state part): no descriptor is held at two places at once, and the
\* main thread is past the join only when the aggregator thread has ended.
ExclusiveOwnership ==
    /\ \A path \in WalkPaths : Cardinality(HoldersOf(path)) <= 1
    /\ mainPc \in {"assemble", "returned"} => aggPc = "done"

\* C19 (step part): the Branch Buffer changes only in a step of the
\* aggregator thread while the main thread is before the join, or in the
\* main thread's assembly after the aggregator thread has ended.
BranchesTouchedByOneThread ==
    branches' # branches =>
        \/ aggPc = "recv" /\ mainPc \in {"run", "join"} /\ received' # received
        \/ aggPc = "done" /\ mainPc = "assemble" /\ received' = received

IsPrefix(a, b) == Len(a) <= Len(b) /\ SubSeq(b, 1, Len(a)) = a

\* C20 (state part): until the main thread assembles the tree, every
\* directory the aggregator has processed has a bucket keyed by its path.
DirectoryHasBucket ==
    mainPc \in {"run", "join", "panicked"} =>
        \A n \in Range(received) : is_dir(n) => n.path \in DOMAIN branches

\* C20 (step part): a step of the aggregator loop keeps every bucket and
\* everything already collected in it.
BucketsKept ==
    received' # received =>
        \A k \in DOMAIN branches :
            k \in DOMAIN branches' /\ IsPrefix(branches[k], branches'[k])

\* C20: once the aggregator has processed a directory its own bucket exists,
\* and the pre-creation never removes or replaces children already collected.
C20_BucketsPreCreated ==
    [] DirectoryHasBucket /\ [][BucketsKept]_vars

\* a directory arrived after one of its children was already collected
C20_Witness ==
    /\ mainPc \in {"run", "join"}
    /\ \E i \in 1..Len(received), j \in 1..Len(received) :
          /\ j < i
          /\ is_dir(received[i])
          /\ received[i].path \in DOMAIN branches
          /\ \E m \in 1..Len(branches[received[i].path]) :
                branches[received[i].path][m] = received[j]


(* ================== sorting one children list ========================= *)
\* The comparator is a pure function of two Nodes, so the claims about the
\* sorted children list are checked on walks of one directory /r holding up
\* to MaxSiblings entries, all delivered, in every arrival order.
SiblingNames == {"a", "b", "c", "d"}

SiblingAttrs ==
    {DirAttr} \cup
    { [ok |-> TRUE, file_type |-> "file", metadata |-> m] :
        m \in {None} \cup { Some(s) : s \in 0..MaxSiblingSize } }

RECURSIVE SiblingArrivals(_)
\* the entries of /r, at most n of them, in the order in which their Nodes
\* arrived
SiblingArrivals(n) ==
    IF n = 0 THEN {<< >>}
    ELSE LET shorter == SiblingArrivals(n - 1)
         IN shorter \cup
            UNION { { Append(a, MkEntry(<< "r", name >>, 1, attr)) :
                        name \in SiblingNames \ { a[i].path[2] : i \in 1..Len(a) },
                        attr \in SiblingAttrs } :
                    a \in { x \in shorter : Len(x) = n - 1 } }

RECURSIVE NodesFrom(_)
NodesFrom(entries) ==
    IF entries = << >> THEN << >>
    ELSE << NodeFrom(Head(entries)) >> \o NodesFrom(Tail(entries))

\* the state after the join (line 116) of a walk whose entries were all Ok
\* and whose Nodes arrived root first, then in the order of arrivals
JoinedAfter(arrivals) ==
    LET rootEntry == MkEntry(<< "r" >>, 0, DirAttr)
        nodes == NodesFrom(<< rootEntry >> \o arrivals)
        st == AggregateAll([branches |-> << >>, root |-> None], nodes)
    IN /\ pending = {}
       /\ chan = << >>
       /\ txAlive = FALSE
       /\ aggPc = "done"
       /\ branches = st.branches
       /\ root = st.root
       /\ aggResult = AggregatorFinish(st.root)
       /\ received = nodes
       /\ mainPc = "assemble"
       /\ tree = None
       /\ result = "pending"
       /\ cfg = Some([canonicalize |-> TRUE, metadata |-> TRUE, globs |-> TRUE])
       /\ sent = Len(nodes)
       /\ pruned = None
       /\ output = None
       /\ FrontIdle

SortInit == \E arrivals \in SiblingArrivals(MaxSiblings) : JoinedAfter(arrivals)

SortNext == \E order \in TreeOrders : Assemble(order)

SortSpec == SortInit /\ [][SortNext]_vars

\* some child that is not a directory stands before a directory
FileBeforeDir(children) ==
    \E i, j \in 1..Len(children) :
        i < j /\ ~is_dir(children[i]) /\ is_dir(children[j])

\* C14: with dirs_first and a name or size order, in every children list of
\* the assembled tree every directory precedes every non-directory.
C14_DirsFirst ==
    (Returned("Ok") /\ tree[1].order.dirs_first /\ tree[1].order.sort # "None") =>
        \A n \in NodesOf(tree[1].root) : ~FileBeforeDir(ChildrenOf(n))

\* dirs_first moved a directory in front of a file that arrived first and
\* that the name order alone puts first
C14_Witness ==
    /\ Returned("Ok")
    /\ tree[1].order = [sort |-> "Name", dirs_first |-> TRUE]
    /\ Len(ChildrenOf(tree[1].root)) = 3
    /\ FileBeforeDir(Tail(received))
    /\ \E i, j \in 1..3 :
          /\ i < j
          /\ is_dir(ChildrenOf(tree[1].root)[i])
          /\ ~is_dir(ChildrenOf(tree[1].root)[j])
          /\ NameRank(file_name(ChildrenOf(tree[1].root)[j]))
               < NameRank(file_name(ChildrenOf(tree[1].root)[i]))

Reverse(seq) == [i \in 1..Len(seq) |-> seq[Len(seq) + 1 - i]]

\* a children list as the sequence of its paths (assemble_tree attaches a
\* children list to a directory, so whole Nodes differ before and after)
PathsOf(children) == [i \in 1..Len(children) |-> children[i].path]

\* the sizes the size orders compare are pairwise distinct
PairwiseDistinctSizes(children) ==
    \A i, j \in 1..Len(children) :
        i # j => UnwrapOr(children[i].file_size, 0) # UnwrapOr(children[j].file_size, 0)

SizeAsc == [sort |-> "Size", dirs_first |-> FALSE]
SizeDesc == [sort |-> "SizeRev", dirs_first |-> FALSE]

\* C15: for a children list with pairwise distinct sizes, the list sorted
\* size-ascending and reversed is the list sorted size-descending.  The
\* list assemble_tree sorted with one of the two orders is compared with
\* the arrived list sorted with the other.
C15_SizeOrderDuality ==
    (Returned("Ok") /\ PairwiseDistinctSizes(Tail(received))) =>
        /\ tree[1].order = SizeAsc =>
              Reverse(PathsOf(ChildrenOf(tree[1].root)))
                  = PathsOf(sort_by(Tail(received), SizeDesc))
        /\ tree[1].order = SizeDesc =>
              PathsOf(ChildrenOf(tree[1].root))
                  = Reverse(PathsOf(sort_by(Tail(received), SizeAsc)))

\* three children of distinct sizes that arrived neither ascending nor
\* descending, sorted size-descending
C15_Witness ==
    /\ Returned("Ok")
    /\ tree[1].order = SizeDesc
    /\ Len(Tail(received)) = 3
    /\ PairwiseDistinctSizes(Tail(received))
    /\ PathsOf(Tail(received)) # PathsOf(ChildrenOf(tree[1].root))
    /\ PathsOf(Tail(received)) # Reverse(PathsOf(ChildrenOf(tree[1].root)))


(* ================= pruning and rendering a tree ======================= *)
\* The assembled tree is pruned and rendered by the main thread alone.
\* These steps are checked on walks of a directory /r whose entries were
\* all Ok and whose Nodes all arrived, every parent before its children.
RECURSIVE TreeShapesOf(_)
\* the prefix-closed sets of at most n relative paths
TreeShapesOf(n) ==
    IF n <= 1 THEN {{<< >>}}
    ELSE LET smaller == TreeShapesOf(n - 1)
         IN smaller \cup
            UNION { { S \cup {Append(p, name)} :
                        p \in { q \in S : Len(q) < MaxTreeDepth }, name \in Names } :
                    S \in smaller }

TreeLeafAttrs == {DirAttr} \cup FileAttrs

\* the entries below /r of one walk
TreeListingsOf(S) ==
    { { MkEntry(<< "r" >> \o p, Len(p), f[p]) : p \in S \ {<< >>} } :
        f \in { g \in [S \ {<< >>} -> TreeLeafAttrs] :
                  \A p \in S \ {<< >>} : HasChild(S, p) => g[p] = DirAttr } }

(* ------------------------ Node::prune_directories --------------------- *)
\* Node::has_children
has_children(node) == ChildrenOf(node) # << >>

\* line 107 with the test of the pruned directory left out
KeptAfterPruning_always(node) == TRUE

\* line 107: a directory that was pruned is retained when it still has
\* children
KeptAfterPruning(node) == has_children(node)

RECURSIVE prune_directories(_)
RECURSIVE RetainPruned(_)
\* the closure of retain_mut, lines 103-113, applied to the children in turn
RetainPruned(children) ==
    IF children = << >> THEN << >>
    ELSE LET node == Head(children)
             rest == RetainPruned(Tail(children))
         IN IF is_dir(node)
            THEN IF has_children(node)
                 THEN LET done == prune_directories(node)
                      IN IF KeptAfterPruning(done) THEN << done >> \o rest ELSE rest
                 ELSE rest
            ELSE << node >> \o rest

\* Node::prune_directories, lines 102-114
prune_directories(node) ==
    IF IsSome(node.children)
    THEN [node EXCEPT !.children = Some(RetainPruned(node.children[1]))]
    ELSE node

(* --------------------------- Display for Tree ------------------------- *)
\* the prefix segments; the real strings are "   ", "│  ", "└─ " and "├─ "
\* (the last three wrapped in a colour escape)
SEP == "   "
VT == "|  "
UPRT == "'- "
VTRT == "|- "

\* the maximum display depth: None (unbounded) or Some(k)
Levels == {None} \cup { Some(k) : k \in 0..MaxTreeDepth }

\* extend_output, lines 162-165: one line of the output, prefix then the
\* Node's own text (its name and, when it has one, its size); path is kept
\* to tell which Node the line was written for
Line(node, prefix) ==
    [prefix |-> prefix, name |-> file_name(node), size |-> node.file_size,
     path |-> node.path]

\* line 190: level is self.level.unwrap_or(usize::MAX), which no depth + 1
\* exceeds
BelowLevel(child, level) == IsSome(level) /\ child.depth + 1 > level[1]

\* lines 182-186
Connector(last_entry) == IF last_entry THEN UPRT ELSE VTRT

\* lines 194-200 with the blank segment never chosen
NewBaseSegment_always_vt(child, last_entry) == VT

\* lines 194-200
NewBaseSegment(child, last_entry) ==
    IF is_dir(child) /\ last_entry THEN SEP ELSE VT

RECURSIVE traverse(_, _, _)
\* fn traverse, lines 168-210
traverse(children, base_prefix, level) ==
    IF children = << >> THEN << >>
    ELSE LET child == Head(children)
             last_entry == Len(children) = 1
             prefix == Append(base_prefix, Connector(last_entry))
             new_base == Append(base_prefix, NewBaseSegment(child, last_entry))
             below == IF ~is_dir(child) \/ BelowLevel(child, level) THEN << >>
                      ELSE IF IsSome(child.children)
                           THEN traverse(child.children[1], new_base, level)
                           ELSE << >>
         IN << Line(child, prefix) >> \o below
            \o traverse(Tail(children), base_prefix, level)

\* Display::fmt with the root line written after the lines of its children
fmt_root_last(tree_root, level) ==
    (IF IsSome(tree_root.children)
     THEN traverse(tree_root.children[1], << >>, level)
     ELSE << >>) \o << Line(tree_root, << >>) >>

\* Display::fmt, lines 157-218
fmt(tree_root, level) ==
    << Line(tree_root, << >>) >> \o
    (IF IsSome(tree_root.children)
     THEN traverse(tree_root.children[1], << >>, level)
     ELSE << >>)

(* ------------------------------ actions ------------------------------- *)
TreeInit ==
    \E S \in TreeShapesOf(MaxTreeEntries) :
        \E listing \in TreeListingsOf(S) : JoinedAfter(ParentsFirst(listing))

\* the prune flag is set: Node::prune_directories on the root
Prune ==
    /\ Returned("Ok")
    /\ pruned = None /\ output = None
    /\ pruned' = Some(prune_directories(tree[1].root))
    /\ UNCHANGED << pending, chan, txAlive, aggPc, branches, root, aggResult,
                    received, mainPc, tree, result, cfg, sent, output >>
    /\ UNCHANGED frontVars

\* the tree is written out.  The level argument of Tree::new is immutable
\* and first read here, so it is drawn here.
Display(level) ==
    /\ Returned("Ok")
    /\ pruned = None /\ output = None
    /\ output' = Some([level |-> level, lines |-> fmt(tree[1].root, level)])
    /\ UNCHANGED << pending, chan, txAlive, aggPc, branches, root, aggResult,
                    received, mainPc, tree, result, cfg, sent, pruned >>
    /\ UNCHANGED frontVars

TreeNext ==
    \/ \E order \in TreeOrders : Assemble(order)
    \/ Prune
    \/ \E level \in Levels : Display(level)

TreeSpec == TreeInit /\ [][TreeNext]_vars

(* ------------------------------ pruning ------------------------------- *)
PathsIn(node) == { n.path : n \in NodesOf(node) }

\* every non-directory of the tree is still in the pruned tree
FilesKept ==
    \A n \in NodesOf(tree[1].root) : ~is_dir(n) => n \in NodesOf(pruned[1])

\* C11 as stated: after prune_directories no directory anywhere in the tree
\* has zero children, and every non-directory is still in the tree.
C11_NoEmptyDirectoryAnywhere ==
    IsSome(pruned) =>
        /\ \A n \in NodesOf(pruned[1]) : is_dir(n) => ChildrenOf(n) # << >>
        /\ FilesKept

\* C11 amended: after prune_directories no directory other than the node it
\* was called on (the root) has zero children, and every non-directory is
\* still in the tree.
C11_NoEmptyDirectoryBelowRoot ==
    IsSome(pruned) =>
        /\ \A n \in NodesOf(pruned[1]) :
              (is_dir(n) /\ n.path # pruned[1].path) => ChildrenOf(n) # << >>
        /\ FilesKept

\* a directory that had children was pruned away with them, a file two
\* levels down was kept
C11_Witness ==
    /\ IsSome(pruned)
    /\ \E n \in NodesOf(tree[1].root) :
          is_dir(n) /\ ChildrenOf(n) # << >> /\ n.path \notin PathsIn(pruned[1])
    /\ \E n \in NodesOf(pruned[1]) : ~is_dir(n) /\ n.depth = 2

(* ----------------------------- rendering ------------------------------ *)
LinePaths(lines) == { lines[i].path : i \in 1..Len(lines) }

\* C12: with maximum display depth k a line is written for exactly the
\* nodes of depth <= k, each once, with the size the node has in the tree.
C12_RenderDepthCap ==
    (IsSome(output) /\ IsSome(output[1].level)) =>
        LET lines == output[1].lines
            k == output[1].level[1]
        IN /\ LinePaths(lines) = { n.path : n \in { m \in NodesOf(tree[1].root) : m.depth <= k } }
           /\ Len(lines) = Cardinality(LinePaths(lines))
           /\ \A i \in 1..Len(lines) :
                 \E n \in NodesOf(tree[1].root) :
                     n.path = lines[i].path /\ n.file_size = lines[i].size

\* the node of the tree with the given path is the last child of its parent
IsLastSibling(tree_root, path) ==
    \E p \in NodesOf(tree_root) :
        /\ ChildrenOf(p) # << >>
        /\ ChildrenOf(p)[Len(ChildrenOf(p))].path = path

\* the prefix the claim gives a node d levels below the root: one segment
\* for each ancestor at depths 1..d-1, then the branch connector
ExpectedPrefix(tree_root, path) ==
    LET base == Len(tree_root.path)
        d == Len(path) - base
    IN [j \in 1..d |->
          IF j < d
          THEN IF IsLastSibling(tree_root, SubSeq(path, 1, base + j)) THEN SEP ELSE VT
          ELSE IF IsLastSibling(tree_root, path) THEN UPRT ELSE VTRT]

\* C13: the root line has an empty prefix and every other line, for a node
\* of depth d, has d segments: vertical or blank for each ancestor at depths
\* 1..d-1 as that ancestor is not or is the last of its siblings, then the
\* connector for a non-last or a last child.
C13_RenderPrefix ==
    IsSome(output) =>
        LET lines == output[1].lines
        IN /\ lines[1].prefix = << >> /\ lines[1].path = tree[1].root.path
           /\ \A i \in 1..Len(lines) :
                 /\ lines[i].prefix = ExpectedPrefix(tree[1].root, lines[i].path)
                 /\ \E n \in NodesOf(tree[1].root) :
                       n.path = lines[i].path /\ Len(lines[i].prefix) = n.depth

\* a node three levels down, below an ancestor that is not the last of its
\* siblings and one that is
C13_Witness ==
    /\ IsSome(output)
    /\ \E i \in 1..Len(output[1].lines) :
          output[1].lines[i].prefix = << VT, SEP, UPRT >>


(* ===================== termination and the send ======================= *)
\* the run is over: Tree::new returned, the conversion failed or a panic
\* unwound the main thread
Terminated == mainPc \in {"returned", "failed", "panicked"}

\* C27: once every walker worker has finished (walker.run is about to
\* return), Tree::traverse eventually returns, and no state before the end
\* of the run is without a next step.
C27_TraversalTerminates ==
    /\ (mainPc = "run" /\ pending = {}) ~> (mainPc = "returned")
    /\ [](Terminated \/ ENABLED LiveNext)

\* the run returned after the aggregator received the whole walk and was
\* released by drop(tx)
C27_Witness ==
    /\ Returned("Ok")
    /\ Len(received) >= 2
    /\ ~txAlive /\ aggPc = "done"

\* C28: whenever a worker sends, the receiving end of the channel is alive,
\* so the unwrap on tx.send never panics.
C28_SendNeverFails ==
    /\ mainPc # "panicked"
    /\ (mainPc = "run" /\ \E e \in pending : e.ok) => aggPc = "recv"


(* ================== descriptors built by the front end ================ *)
\* where a symbolic link can point: "/", a, a/b, a/.. and ..
LinkTargets == {<< >>, << "a" >>, << "a", "b" >>, << "a", ".." >>, << ".." >>}

\* the file types the walker reports; "none" when the type is unknown
EntryTypes == {"file", "dir", "symlink", "other", "none"}

\* what the walker and read_link report for one entry: link is the target
\* fs::read_link gave when path_is_symlink holds, None otherwise
EntryAttrs(targets, sizes) ==
    [ok : {TRUE}, file_type : EntryTypes,
     metadata : {None} \cup { Some(s) : s \in sizes },
     link : {None} \cup { Some(t) : t \in targets }]

\* DirEntry: the entry at path with these attributes
MkDirEntry(path, depth, attr) ==
    [ok |-> attr.ok, path |-> path, depth |-> depth,
     file_type |-> attr.file_type, metadata |-> attr.metadata,
     link |-> attr.link]

\* the fields of Context that the front end reads for one entry; no_color
\* is the value of Context::no_color()
FileTypeFilters == {"File", "Dir", "Link"}
Patterns == {"", "a", "b", "("}
DiskUsages == {"Logical", "Physical", "Line", "Block"}

\* the Context of a run with no option given but these
ContextOf(suppress_size, no_color) ==
    [suppress_size |-> suppress_size, no_color |-> no_color, human |-> FALSE,
     unit |-> "Bin", max_size_width |-> 1, disk_usage |-> "Physical",
     pattern |-> None, file_type |-> None]

\* the Contexts that differ in how a size is shown
SizeContexts ==
    { [ContextOf(s, n) EXCEPT !.human = h, !.unit = u, !.max_size_width = w,
                              !.disk_usage = d] :
        s \in BOOLEAN, n \in BOOLEAN, h \in BOOLEAN, u \in {"Si", "Bin"},
        w \in {0, 1}, d \in DiskUsages }

\* the Contexts that differ in the pattern and the file-type filter
FilterContexts ==
    { [ContextOf(FALSE, TRUE) EXCEPT !.pattern = p, !.file_type = t] :
        p \in {None} \cup { Some(x) : x \in Patterns },
        t \in {None} \cup { Some(x) : x \in FileTypeFilters } }

\* impl From<(&DirEntry, &Context)> for Node with the size shown although
\* suppress_size is set
NodeFromContext_size_unsuppressed(dir_entry, c) ==
    [depth |-> dir_entry.depth,
     file_size |-> IF dir_entry.file_type = "file"
                   THEN dir_entry.metadata ELSE None,
     children |-> << >>,
     file_type |-> dir_entry.file_type,
     path |-> dir_entry.path,
     symlink_target |-> dir_entry.link]

\* impl From<(&DirEntry, &Context)> for Node: children starts as vec![],
\* the size is read for a regular file unless suppress_size is set
NodeFromContext(dir_entry, c) ==
    [depth |-> dir_entry.depth,
     file_size |-> IF ~c.suppress_size /\ dir_entry.file_type = "file"
                   THEN dir_entry.metadata ELSE None,
     children |-> << >>,
     file_type |-> dir_entry.file_type,
     path |-> dir_entry.path,
     symlink_target |-> dir_entry.link]

\* the walks whose descriptors are built: a root alone or a root with one
\* child, of every file type, with and without metadata
NodeRoots ==
    { MkDirEntry(<< "r" >>, 0, a) : a \in EntryAttrs({<< "a" >>}, 0..MaxSize) } \cup
    { MkDirEntry(<< "r" >>, 0, ErrAttr @@ [link |-> None]),
      MkDirEntry(<< >>, 0, [ok |-> TRUE, file_type |-> "none",
                            metadata |-> None, link |-> None]) }

NodeWalks ==
    { {r} : r \in NodeRoots } \cup
    { {r, MkDirEntry(r.path \o << "a" >>, 1, a)} :
        r \in { x \in NodeRoots : x.file_type \in {"dir", "none"} },
        a \in EntryAttrs({<< "a" >>}, 0..MaxSize) }

\* Tree::traverse right after the aggregator thread was spawned, on one of
\* these walks, and the Context the front end parsed
NodeInit ==
    /\ pending \in NodeWalks
    /\ chan = << >>
    /\ txAlive = TRUE
    /\ aggPc = "recv"
    /\ branches = << >>
    /\ root = None
    /\ aggResult = "running"
    /\ received = << >>
    /\ mainPc = "run"
    /\ tree = None
    /\ result = "pending"
    /\ cfg = Some([canonicalize |-> TRUE, metadata |-> TRUE, globs |-> TRUE])
    /\ sent = 0
    /\ pruned = None
    /\ output = None
    /\ dirEntry = None
    /\ ctx \in { Some(ContextOf(s, TRUE)) : s \in BOOLEAN }
    /\ built = None
    /\ outcome = None
    /\ styles = [c \in StyleCells |-> None]
    /\ env = None

\* the front end builds its descriptor of an entry the walker reports
ConstructWithContext(e) ==
    /\ e.ok
    /\ built = None
    /\ dirEntry' = Some(e)
    /\ built' = Some(NodeFromContext(e, ctx[1]))
    /\ UNCHANGED treeVars
    /\ UNCHANGED << ctx, outcome, styles, env >>

NodeNext ==
    \/ \E e \in pending : WalkerSkip(e)
    \/ \E e \in pending : WalkerSend(e)
    \/ \E e \in pending : WalkerSendPanics(e)
    \/ DropTx
    \/ AggregatorRecv
    \/ AggregatorDisconnected
    \/ JoinOk
    \/ JoinErr
    \/ \E order \in TreeOrders : Assemble(order)
    \/ \E e \in pending : ConstructWithContext(e)

NodeSpec == NodeInit /\ [][NodeNext]_vars

\* the size a constructor may give the descriptor of entry e
SizeAtConstruction(e, size, suppressed) ==
    /\ size # None => e.file_type = "file" /\ e.metadata # None /\ ~suppressed
    /\ e.file_type # "file" => size = None

\* the descriptors between their construction and assemble_tree
DescriptorsInFlight ==
    Range(chan) \cup Range(received) \cup
    UNION { Range(branches[p]) : p \in DOMAIN branches } \cup
    Range(root)

\* C21: a constructor gives a descriptor a size only for a regular file
\* whose metadata was read (and, with a Context, only if the size is not
\* suppressed); every other entry is built with None, and a directory has
\* no size until assemble_tree sets it.
C21_SizeAtConstruction ==
    /\ [](\A n \in DescriptorsInFlight :
             /\ n.file_size # None => n.file_type = "file"
             /\ n.file_type # "file" => n.file_size = None)
    /\ [][ /\ sent' = sent + 1 =>
                \A e \in pending \ pending' :
                    SizeAtConstruction(e, chan'[Len(chan')].file_size, FALSE)
           /\ built' # built =>
                SizeAtConstruction(dirEntry'[1], built'[1].file_size,
                                   ctx[1].suppress_size) ]_vars

\* both constructors gave a regular file its size, and the root directory
\* got its size from assemble_tree
C21_Witness ==
    /\ IsSome(built) /\ built[1].file_size # None
    /\ Returned("Ok")
    /\ is_dir(tree[1].root) /\ tree[1].root.file_size # None
    /\ \E n \in Range(received) : n.file_size # None


(* ========================= the styles module ========================== *)
\* Rust's Result
Ok(v) == [ok |-> TRUE, value |-> v]
Err(e) == [ok |-> FALSE, value |-> e]

\* the values of the LS_COLORS environment variable: unset or set
LsColorsVars == {None, Some("di=34"), Some("ln=36")}

\* LsColors::from_env().unwrap_or_default()
LsColorsFromEnv(e) == IF e.LS_COLORS = None THEN "default" ELSE e.LS_COLORS[1]

\* the box-drawing themes: every element painted with one colour
ThemeOf(colour) == [k \in {"vt", "uprt", "drt", "vtrt"} |-> << colour, k >>]

\* du_theme without the binary units
DuTheme_si_only ==
    [u \in {"B", "KB", "MB", "GB", "TB"} |->
        CASE u = "B" -> "c0c0c0"
          [] u = "KB" -> "90ee90"
          [] u = "MB" -> "f0e68c"
          [] u = "GB" -> "ff7f50"
          [] OTHER -> "Red"]

\* du_theme of init_themes: one colour per unit
DuTheme ==
    [u \in {"B", "KB", "KiB", "MB", "MiB", "GB", "GiB", "TB", "TiB"} |->
        CASE u = "B" -> "c0c0c0"
          [] u \in {"KB", "KiB"} -> "90ee90"
          [] u \in {"MB", "MiB"} -> "f0e68c"
          [] u \in {"GB", "GiB"} -> "ff7f50"
          [] OTHER -> "Red"]

\* init_plain sets the two themes without colour
init_plain == << << "TREE_THEME", ThemeOf("plain") >>,
                 << "LINK_THEME", ThemeOf("plain") >> >>

\* init_ls_colors
init_ls_colors(e) == << << "LS_COLORS", LsColorsFromEnv(e) >> >>

\* init_themes, init_themes_for_long_view included
init_themes ==
    << << "TREE_THEME", ThemeOf("White") >>,
       << "LINK_THEME", ThemeOf("White") >>,
       << "DU_THEME", DuTheme >>,
       << "PLACEHOLDER_STYLE", "Purple" >>,
       << "PERMISSIONS_THEME", "permissions" >>,
       << "OCTAL_PERMISSIONS_STYLE", "Yellow" >>,
       << "INO_STYLE", "d3d3d3" >>,
       << "NLINK_STYLE", "dda0dd" >>,
       << "DATETIME_STYLE", "adff2f" >>,
       << "OWNER_STYLE", "Cyan" >>,
       << "GROUP_STYLE", "Green" >> >>

\* styles::init with LS_COLORS initialised in the plain mode as well
StylesToSet_plain_with_ls_colors(plain, e) ==
    IF plain THEN init_ls_colors(e) \o init_plain
    ELSE init_ls_colors(e) \o init_themes

\* styles::init: the statics it sets, in the order it sets them
StylesToSet(plain, e) ==
    IF plain THEN init_plain ELSE init_ls_colors(e) \o init_themes

\* OnceCell::set(..).unwrap() on each static in turn: a static that is
\* already set makes set return Err and the unwrap panic, the statics set
\* before it stay set
RECURSIVE SetEach(_, _)
SetEach(st, sets) ==
    IF sets = << >> THEN [styles |-> st, panicked |-> FALSE]
    ELSE IF st[sets[1][1]] # None THEN [styles |-> st, panicked |-> TRUE]
    ELSE SetEach([st EXCEPT ![sets[1][1]] = Some(sets[1][2])], Tail(sets))

\* get_ls_colors, get_du_theme, get_tree_theme, ...: OnceCell::get or the
\* Uninitialized error that names the static
get(st, name) ==
    IF st[name] = None THEN Err(<< "Uninitialized", name >>) ELSE Ok(st[name][1])

\* the process before styles::init, with the LS_COLORS variable set or not
StyleInit ==
    /\ pending = {}
    /\ chan = << >>
    /\ txAlive = FALSE
    /\ aggPc = "unspawned"
    /\ branches = << >>
    /\ root = None
    /\ aggResult = "running"
    /\ received = << >>
    /\ mainPc = "config"
    /\ tree = None
    /\ result = "pending"
    /\ cfg = None
    /\ sent = 0
    /\ pruned = None
    /\ output = None
    /\ dirEntry = None
    /\ ctx = None
    /\ built = None
    /\ outcome = None
    /\ styles = [c \in StyleCells |-> None]
    /\ env \in { Some([LS_COLORS |-> v]) : v \in LsColorsVars }

\* styles::init(plain)
StylesInit(plain) ==
    /\ mainPc = "config"
    /\ LET done == SetEach(styles, StylesToSet(plain, env[1]))
       IN /\ styles' = done.styles
          /\ mainPc' = IF done.panicked THEN "panicked" ELSE mainPc
          /\ outcome' = Some([call |-> "init", arg |-> plain,
                              value |-> IF done.panicked THEN "panic" ELSE "()"])
    /\ UNCHANGED << pending, chan, txAlive, aggPc, branches, root, aggResult,
                    received, tree, result, cfg, sent, pruned, output >>
    /\ UNCHANGED << dirEntry, ctx, built, env >>

\* one of the getters is called, from any thread
StylesGet(name) ==
    /\ mainPc = "config"
    /\ outcome' = Some([call |-> "get", arg |-> name, value |-> get(styles, name)])
    /\ UNCHANGED treeVars
    /\ UNCHANGED << dirEntry, ctx, built, styles, env >>

StyleNext ==
    \/ \E plain \in BOOLEAN : StylesInit(plain)
    \/ \E name \in StyleCells : StylesGet(name)

StyleSpec == StyleInit /\ [][StyleNext]_vars

\* styles::init was never called
Uninitialized == \A name \in StyleCells : styles[name] = None

\* C24: before styles::init every getter returns the Uninitialized error;
\* right after init(true) get_tree_theme and get_link_theme return Ok and
\* get_ls_colors the error; right after init(false) every getter returns
\* Ok; a getter that returns Ok returns the same value ever after.
C24_StylesInitialisation ==
    /\ [](Uninitialized =>
            \A name \in StyleCells :
                get(styles, name) = Err(<< "Uninitialized", name >>))
    /\ [](IsSome(outcome) /\ outcome[1].call = "get" /\ Uninitialized
            => ~outcome[1].value.ok)
    /\ [][ Uninitialized /\ ~Uninitialized' =>
             /\ outcome'[1].call = "init"
             /\ outcome'[1].arg =>
                  /\ get(styles', "TREE_THEME").ok
                  /\ get(styles', "LINK_THEME").ok
                  /\ get(styles', "LS_COLORS") = Err(<< "Uninitialized", "LS_COLORS" >>)
             /\ ~outcome'[1].arg =>
                  \A name \in StyleCells : get(styles', name).ok ]_vars
    /\ [][ \A name \in StyleCells :
             get(styles, name).ok => get(styles', name) = get(styles, name) ]_vars

\* get_tree_theme returned Ok after init(true), LS_COLORS still unset
C24_Witness ==
    /\ IsSome(outcome) /\ outcome[1].call = "get"
    /\ outcome[1].arg = "TREE_THEME" /\ outcome[1].value.ok
    /\ styles["LS_COLORS"] = None
    /\ mainPc = "config"


(* ======================= rendering one entry ========================== *)
\* the byte lengths of the files whose size cell is formatted
CellSizes == {0, 1, 1000, 1024, 1000000, 1048576, 1000000000, 1073741824}

\* the plain flag main passes to styles::init: Context::no_color()
PlainFor(c) == c.no_color

\* Path::file_name: None for "/" and for a path that ends in ".."
path_file_name(path) ==
    IF path = << >> \/ path[Len(path)] = ".." THEN None
    ELSE Some(path[Len(path)])

\* Node::is_symlink
is_symlink(n) == n.symlink_target # None

\* Node::symlink_target_file_name
symlink_target_file_name(n) ==
    IF n.symlink_target = None THEN None
    ELSE path_file_name(n.symlink_target[1])

\* Node::stylize_link_name: the pieces of "{styled_name} -> {target_name}"
stylize_link_name(n) ==
    IF symlink_target_file_name(n) = None THEN None
    ELSE Some(<< file_name(n), " -> ", symlink_target_file_name(n)[1] >>)

\* Node::display: the styled name written on the line
styled_name(n) == UnwrapOr(stylize_link_name(n), << file_name(n) >>)

\* styles::PLACEHOLDER
PLACEHOLDER == "-"

\* SiPrefix::from and BinPrefix::from for byte counts below 2^31
SiPrefixOf(v) ==
    IF v < 1000 THEN "B" ELSE IF v < 1000000 THEN "KB"
    ELSE IF v < 1000000000 THEN "MB" ELSE "GB"
BinPrefixOf(v) ==
    IF v < 1024 THEN "B" ELSE IF v < 1048576 THEN "KiB"
    ELSE IF v < 1073741824 THEN "MiB" ELSE "GiB"
PrefixOf(v, c) == IF c.unit = "Si" THEN SiPrefixOf(v) ELSE BinPrefixOf(v)

\* Display for byte::Metric: "{size} {unit}", the unit of a metric that is
\* not human readable is B
MetricText(v, c) ==
    IF c.human
    THEN LET unit == PrefixOf(v, c)
             base == CASE unit = "B" -> 1
                       [] unit \in {"KB"} -> 1000
                       [] unit \in {"KiB"} -> 1024
                       [] unit \in {"MB"} -> 1000000
                       [] unit \in {"MiB"} -> 1048576
                       [] unit \in {"GB"} -> 1000000000
                       [] OTHER -> 1073741824
         IN << v \div base, unit >>
    ELSE << v, "B" >>

\* a panic of an unwrap
Panic == [ok |-> FALSE, value |-> "panic"]

\* HashMap::get(key).unwrap() on get_du_theme().unwrap()
DuColour(st, key) ==
    LET theme == get(st, "DU_THEME")
    IN IF ~theme.ok THEN Panic
       ELSE IF key \notin DOMAIN theme.value THEN Panic
       ELSE Ok(theme.value[key])

\* Cell::fmt_size_placeholder
fmt_size_placeholder(c, st) ==
    IF c.suppress_size \/ c.max_size_width = 0 THEN Ok(<< >>)
    ELSE LET padding ==
               IF c.disk_usage \in {"Logical", "Physical"}
               THEN c.max_size_width + 1 +
                    (IF c.unit = "Si" /\ c.human THEN 2
                     ELSE IF c.unit = "Bin" /\ c.human THEN 3
                     ELSE IF c.unit = "Si" THEN 0 ELSE 1)
               ELSE c.max_size_width + 1 - 1
             style == get(st, "PLACEHOLDER_STYLE")
         IN Ok(<< IF style.ok THEN style.value ELSE "plain", padding, PLACEHOLDER >>)

\* Cell::fmt_bytes
fmt_bytes(v, c, st) ==
    LET out == MetricText(v, c)
        colour == IF c.human THEN DuColour(st, out[2])
                  ELSE DuColour(st, PrefixOf(v, c))
    IN IF c.no_color THEN Ok(<< "plain", out[1], out[2] >>)
       ELSE IF ~colour.ok THEN Panic
       ELSE Ok(<< colour.value, out[1], out[2] >>)

\* Cell::fmt_block_usage: the count of 512-byte blocks, coloured by the
\* prefix of the byte count
fmt_block_usage(v, c, st) ==
    LET colour == DuColour(st, PrefixOf(v, c))
    IN IF c.no_color THEN Ok(<< "plain", v \div 512 >>)
       ELSE IF ~colour.ok THEN Panic
       ELSE Ok(<< colour.value, v \div 512 >>)

\* Cell::fmt_unitless_disk_usage
fmt_unitless_disk_usage(v, c, st) ==
    LET colour == DuColour(st, "B")
    IN IF c.no_color THEN Ok(<< "plain", v >>)
       ELSE IF ~colour.ok THEN Panic
       ELSE Ok(<< colour.value, v >>)

\* Cell::fmt_file_size: the FileSize variant follows from ctx.disk_usage
fmt_file_size(n, c, st) ==
    IF n.file_size = None THEN fmt_size_placeholder(c, st)
    ELSE CASE c.disk_usage \in {"Logical", "Physical"} -> fmt_bytes(n.file_size[1], c, st)
           [] c.disk_usage = "Block" -> fmt_block_usage(n.file_size[1], c, st)
           [] OTHER -> fmt_unitless_disk_usage(n.file_size[1], c, st)

\* the entries whose line is rendered: r/a of every type, size and target
RenderEntries ==
    { MkDirEntry(<< "r", "a" >>, 1, a) : a \in EntryAttrs(LinkTargets, CellSizes) }

\* the front end after the command line was parsed, looking at one entry
RenderInit ==
    /\ pending = {}
    /\ chan = << >>
    /\ txAlive = FALSE
    /\ aggPc = "unspawned"
    /\ branches = << >>
    /\ root = None
    /\ aggResult = "running"
    /\ received = << >>
    /\ mainPc = "config"
    /\ tree = None
    /\ result = "pending"
    /\ cfg = None
    /\ sent = 0
    /\ pruned = None
    /\ output = None
    /\ dirEntry \in { Some(e) : e \in RenderEntries }
    /\ ctx \in { Some(c) : c \in SizeContexts }
    /\ built = None
    /\ outcome = None
    /\ styles = [c \in StyleCells |-> None]
    /\ env = Some([LS_COLORS |-> None])

\* main initialises the styles once, from the Context
StylesInitFromContext ==
    /\ \A name \in StyleCells : styles[name] = None
    /\ StylesInit(PlainFor(ctx[1]))

\* Node::display writes the name of the entry
DisplayName ==
    /\ mainPc = "config"
    /\ IsSome(built)
    /\ \E name \in StyleCells : styles[name] # None
    /\ outcome' = Some([call |-> "display", arg |-> built[1].path,
                        value |-> styled_name(built[1])])
    /\ UNCHANGED treeVars
    /\ UNCHANGED << dirEntry, ctx, built, styles, env >>

\* Cell::fmt_file_size formats the size cell of the entry
FmtFileSize ==
    /\ mainPc = "config"
    /\ IsSome(built)
    /\ \E name \in StyleCells : styles[name] # None
    /\ LET res == fmt_file_size(built[1], ctx[1], styles)
       IN /\ outcome' = Some([call |-> "fmt_file_size", arg |-> built[1].path,
                              value |-> res])
          /\ mainPc' = IF res.ok THEN mainPc ELSE "panicked"
    /\ UNCHANGED << pending, chan, txAlive, aggPc, branches, root, aggResult,
                    received, tree, result, cfg, sent, pruned, output >>
    /\ UNCHANGED << dirEntry, ctx, built, styles, env >>

RenderNext ==
    \/ StylesInitFromContext
    \/ \E e \in Range(dirEntry) : ConstructWithContext(e)
    \/ DisplayName
    \/ FmtFileSize

RenderSpec == RenderInit /\ [][RenderNext]_vars

\* C22: the name rendered for a symlink is the link's own name, the arrow
\* and the name of the target, whatever the target path.
C22_SymlinkArrow ==
    (IsSome(outcome) /\ outcome[1].call = "display" /\ is_symlink(built[1]))
        => /\ Len(outcome[1].value) = 3
           /\ outcome[1].value[1] = file_name(built[1])
           /\ outcome[1].value[2] = " -> "

\* C23: the size cell of any node is formatted without a panic, and a node
\* without a size gives the placeholder or the empty string.
C23_SizeCellTotal ==
    /\ mainPc # "panicked"
    /\ (IsSome(outcome) /\ outcome[1].call = "fmt_file_size") =>
          /\ outcome[1].value.ok
          /\ built[1].file_size = None =>
                \/ outcome[1].value.value = << >>
                \/ outcome[1].value.value[3] = PLACEHOLDER

\* a coloured size cell in MiB was written
C23_Witness ==
    /\ IsSome(outcome) /\ outcome[1].call = "fmt_file_size"
    /\ outcome[1].value.ok
    /\ ~ctx[1].no_color
    /\ Len(outcome[1].value.value) = 3 /\ outcome[1].value.value[3] = "MiB"


(* ===================== filtering by a regex =========================== *)
\* the characters of the path components of the model
CharsOf(name) ==
    CASE name = "ab" -> {"a", "b"}
      [] name = "/" -> {"/"}
      [] OTHER -> {name}

\* Regex::new: "(" is not a regular expression
RegexNew(pattern) == IF pattern = "(" THEN Err("regex") ELSE Ok(pattern)

\* Regex::is_match for the patterns of the model: the empty pattern matches
\* every text, a one-letter pattern the texts that contain the letter
is_match(re, text) == re = "" \/ re \in CharsOf(text)

\* Context::file_type: the filter, a regular file by default
file_type_filter(c) == UnwrapOr(c.file_type, "File")

\* DirEntry::file_name
entry_file_name(e) == IF Len(e.path) = 0 THEN "/" ELSE e.path[Len(e.path)]

\* Context::ancestor_regex_match: some component matches, the last skip
\* components left out
ancestor_regex_match(path, re, skip) ==
    \E i \in 1..(Len(path) - skip) : is_match(re, path[i])

\* the closure for a filter other than Dir, with directories kept only if
\* their name matches
KeptByRegex_dirs_matched(e, re, filter) ==
    IF filter = "Dir"
    THEN IF e.file_type = "dir" THEN ancestor_regex_match(e.path, re, 0)
         ELSE ancestor_regex_match(e.path, re, 1)
    ELSE IF filter = "File" /\ e.file_type # "file" THEN FALSE
    ELSE IF filter = "Link" /\ e.file_type # "symlink" THEN FALSE
    ELSE is_match(re, entry_file_name(e))

\* the closures regex_predicate returns, applied to one entry
KeptByRegex(e, re, filter) ==
    IF filter = "Dir"
    THEN IF e.file_type = "dir" THEN ancestor_regex_match(e.path, re, 0)
         ELSE ancestor_regex_match(e.path, re, 1)
    ELSE IF e.file_type = "dir" THEN TRUE
    ELSE IF filter = "File" /\ e.file_type # "file" THEN FALSE
    ELSE IF filter = "Link" /\ e.file_type # "symlink" THEN FALSE
    ELSE is_match(re, entry_file_name(e))

\* Context::regex_predicate and a call of the predicate it returns
regex_predicate(c, e) ==
    IF c.pattern = None THEN Err("PatternNotProvided")
    ELSE LET re == RegexNew(c.pattern[1])
         IN IF ~re.ok THEN re
            ELSE Ok(KeptByRegex(e, re.value, file_type_filter(c)))

\* the entries the predicate is asked about
FilterEntries ==
    { MkDirEntry(p, Len(p) - 1,
                 [ok |-> TRUE, file_type |-> t, metadata |-> None, link |-> None]) :
        p \in { << "r" >>, << "r", "a" >>, << "r", "b" >>, << "r", "ab" >>,
                << "r", "a", "b" >>, << "r", "b", "ab" >> },
        t \in EntryTypes }

\* the walker is about to ask the predicate about one entry
FilterInit ==
    /\ pending = {}
    /\ chan = << >>
    /\ txAlive = FALSE
    /\ aggPc = "unspawned"
    /\ branches = << >>
    /\ root = None
    /\ aggResult = "running"
    /\ received = << >>
    /\ mainPc = "config"
    /\ tree = None
    /\ result = "pending"
    /\ cfg = None
    /\ sent = 0
    /\ pruned = None
    /\ output = None
    /\ dirEntry \in { Some(e) : e \in FilterEntries }
    /\ ctx \in { Some(c) : c \in FilterContexts }
    /\ built = None
    /\ outcome = None
    /\ styles = [c \in StyleCells |-> None]
    /\ env = None

\* regex_predicate is called and the predicate applied to the entry
RegexPredicate ==
    /\ mainPc = "config"
    /\ IsSome(dirEntry) /\ IsSome(ctx)
    /\ outcome = None
    /\ outcome' = Some([call |-> "regex_predicate", arg |-> dirEntry[1].path,
                        value |-> regex_predicate(ctx[1], dirEntry[1])])
    /\ UNCHANGED treeVars
    /\ UNCHANGED << dirEntry, ctx, built, styles, env >>

FilterNext == RegexPredicate

FilterSpec == FilterInit /\ [][FilterNext]_vars

\* the predicate was built and gave its answer for the entry
PredicateAnswered ==
    /\ IsSome(outcome) /\ outcome[1].call = "regex_predicate"
    /\ outcome[1].value.ok

\* C26: with a file-type filter other than Dir, the predicate keeps every
\* directory whatever the pattern, and keeps another entry only if its type
\* fits the filter and the pattern matches its file name.
C26_RegexKeepsDirectories ==
    (PredicateAnswered /\ ctx[1].file_type # Some("Dir")) =>
        LET e == dirEntry[1]
            kept == outcome[1].value.value
            filter == IF ctx[1].file_type = None THEN "File"
                      ELSE ctx[1].file_type[1]
            name == e.path[Len(e.path)]
        IN /\ e.file_type = "dir" => kept
           /\ (e.file_type # "dir" /\ kept) =>
                /\ filter = "File" => e.file_type = "file"
                /\ filter = "Link" => e.file_type = "symlink"
                /\ ctx[1].pattern[1] = "" \/ ctx[1].pattern[1] \in CharsOf(name)

\* a directory whose name the pattern does not match was kept, and a
\* regular file whose name matches was kept by the same filter
C26_Witness ==
    /\ PredicateAnswered
    /\ ctx[1].file_type = Some("File") /\ ctx[1].pattern = Some("b")
    /\ dirEntry[1].path = << "r", "a" >> /\ dirEntry[1].file_type = "dir"
    /\ outcome[1].value.value


(* ======================= the configuration file ======================= *)
\* the files read_config_to_string may look at: the path argument, the
\* file ERDTREE_CONFIG_PATH names, and the files below $XDG_CONFIG_HOME and
\* $HOME
ConfigFiles ==
    {"arg", "config_path", "xdg/erdtree/config", "xdg/.erdtreerc",
     "home/.config/erdtree/.erdtreerc", "home/.erdtreerc"}

\* the environment variables it reads
ConfigVars == {"ERDTREE_CONFIG_PATH", "XDG_CONFIG_HOME", "HOME"}

\* a call: whether a path is given, which variables are set, which files
\* can be read
ConfigEnvs == [path : BOOLEAN, vars : SUBSET ConfigVars, readable : SUBSET ConfigFiles]

\* fs::read_to_string(file).ok(): the content of a file is named after it
read_to_string(e, file) == IF file \in e.readable THEN Some(file) ELSE None

\* Option::or_else
or_else(o, alternative) == IF o # None THEN o ELSE alternative

\* config_from_config_path
config_from_config_path(e) ==
    IF "ERDTREE_CONFIG_PATH" \in e.vars THEN read_to_string(e, "config_path")
    ELSE None

\* config_from_xdg_path
config_from_xdg_path(e) ==
    IF "XDG_CONFIG_HOME" \notin e.vars THEN None
    ELSE or_else(read_to_string(e, "xdg/erdtree/config"),
                 read_to_string(e, "xdg/.erdtreerc"))

\* config_from_home
config_from_home(e) ==
    IF "HOME" \notin e.vars THEN None
    ELSE or_else(read_to_string(e, "home/.config/erdtree/.erdtreerc"),
                 read_to_string(e, "home/.erdtreerc"))

\* context/config.rs: read_config_to_string (unix)
read_config_to_string(e) ==
    or_else(or_else(or_else(IF e.path THEN read_to_string(e, "arg") ELSE None,
                            config_from_config_path(e)),
                    config_from_xdg_path(e)),
            config_from_home(e))

\* render/context/config.rs: read_config_to_string, which returns at once
\* when a path is given and looks at $XDG_CONFIG_HOME/erdtree/config last
read_config_to_string_v1(e) ==
    IF e.path THEN read_to_string(e, "arg")
    ELSE or_else(config_from_config_path(e),
                 IF "XDG_CONFIG_HOME" \in e.vars
                 THEN read_to_string(e, "xdg/erdtree/config") ELSE None)

\* the process before the configuration file is looked for
ConfigInit ==
    /\ pending = {}
    /\ chan = << >>
    /\ txAlive = FALSE
    /\ aggPc = "unspawned"
    /\ branches = << >>
    /\ root = None
    /\ aggResult = "running"
    /\ received = << >>
    /\ mainPc = "config"
    /\ tree = None
    /\ result = "pending"
    /\ cfg = None
    /\ sent = 0
    /\ pruned = None
    /\ output = None
    /\ dirEntry = None
    /\ ctx = None
    /\ built = None
    /\ outcome = None
    /\ styles = [c \in StyleCells |-> None]
    /\ env \in { Some(e) : e \in ConfigEnvs }

\* context/config.rs: read_config_to_string is called
ReadConfig ==
    /\ mainPc = "config"
    /\ IsSome(env) /\ outcome = None
    /\ outcome' = Some([call |-> "read_config_to_string", arg |-> env[1].path,
                        value |-> read_config_to_string(env[1])])
    /\ UNCHANGED treeVars
    /\ UNCHANGED << dirEntry, ctx, built, styles, env >>

\* render/context/config.rs: read_config_to_string is called
ReadConfigV1 ==
    /\ mainPc = "config"
    /\ IsSome(env) /\ outcome = None
    /\ outcome' = Some([call |-> "render::read_config_to_string",
                        arg |-> env[1].path,
                        value |-> read_config_to_string_v1(env[1])])
    /\ UNCHANGED treeVars
    /\ UNCHANGED << dirEntry, ctx, built, styles, env >>

ConfigNext == ReadConfig \/ ReadConfigV1

ConfigSpec == ConfigInit /\ [][ConfigNext]_vars

\* C25: called without a path, when ERDTREE_CONFIG_PATH does not yield a
\* readable file, read_config_to_string returns the content of
\* $HOME/.erdtreerc if that file is readable.
C25_HomeFallback ==
    (/\ IsSome(outcome)
     /\ outcome[1].call \in {"read_config_to_string", "render::read_config_to_string"}
     /\ ~env[1].path
     /\ ~("ERDTREE_CONFIG_PATH" \in env[1].vars /\ "config_path" \in env[1].readable)
     /\ "HOME" \in env[1].vars /\ "home/.erdtreerc" \in env[1].readable)
        => outcome[1].value = Some("home/.erdtreerc")


(* =================== order of assembly and of lines ==================== *)
\* C29: the children list of a directory is sorted on the final sizes: in
\* the assembled tree every children list is in the order the comparator
\* gives on the aggregate sizes the child directories ended up with, and
\* the directory that was sorted carries its own aggregate size.
C29_SortSeesAggregates ==
    (Returned("Ok") /\ HasComparator(tree[1].order)) =>
        \A d \in NodesOf(tree[1].root) :
            LET kids == ChildrenOf(d)
            IN /\ \A i, j \in 1..Len(kids) :
                    i < j => ~Before(tree[1].order, kids[j], kids[i])
               /\ \A i \in 1..Len(kids) :
                    (is_dir(kids[i]) /\ SumSizes(ChildrenOf(kids[i])) > 0) =>
                        kids[i].file_size = Some(SumSizes(ChildrenOf(kids[i])))
               /\ (is_dir(d) /\ SumSizes(kids) > 0) =>
                    d.file_size = Some(SumSizes(kids))

\* sorted by ascending size, a directory of aggregate size 2 stands after a
\* file of size 1
C29_Witness ==
    /\ Returned("Ok")
    /\ tree[1].order = [sort |-> "Size", dirs_first |-> FALSE]
    /\ LET kids == ChildrenOf(tree[1].root)
       IN \E i, j \in 1..Len(kids) :
            /\ i < j
            /\ ~is_dir(kids[i]) /\ kids[i].file_size = Some(1)
            /\ is_dir(kids[j]) /\ kids[j].file_size = Some(2)

\* the position of the line written for the node at path
LineOf(lines, path) == CHOOSE i \in 1..Len(lines) : lines[i].path = path

\* C30: with no display depth the output has exactly one line per node of
\* the tree, the root's line first, the line of every directory before the
\* lines of its descendants, and the lines of siblings in the order of the
\* children list.
C30_PreOrderLines ==
    (IsSome(output) /\ output[1].level = None) =>
        LET lines == output[1].lines
            nodes == NodesOf(tree[1].root)
        IN /\ Len(lines) = Cardinality(nodes)
           /\ LinePaths(lines) = { n.path : n \in nodes }
           /\ lines[1].path = tree[1].root.path
           /\ \A d \in nodes : \A n \in NodesOf(d) :
                 n # d => LineOf(lines, d.path) < LineOf(lines, n.path)
           /\ \A d \in nodes :
                 \A i, j \in 1..Len(ChildrenOf(d)) :
                    i < j => \A n \in NodesOf(ChildrenOf(d)[i]) :
                                LineOf(lines, n.path)
                                    < LineOf(lines, ChildrenOf(d)[j].path)

\* five lines were written for a tree three levels deep whose root has two
\* children
C30_Witness ==
    /\ IsSome(output) /\ output[1].level = None
    /\ Len(output[1].lines) = 5
    /\ Len(ChildrenOf(tree[1].root)) = 2
    /\ \E i \in 1..5 : Len(output[1].lines[i].prefix) = 3

====
